---- MODULE Spec2Model ----
(***************************************************************************)
(* Model of resctl-bench/src/study.rs: the Study trait, the selector built *)
(* by sel_factory_iolat, the accumulators StudyMean / StudyPcts /          *)
(* StudyMeanPcts, the row studies of StudyIoLatPcts and the driver         *)
(* Studies::{add, add_multiple, run_fallible}.                             *)
(*                                                                         *)
(* run_fallible is modelled at the granularity of its loops: one step per  *)
(* item of report_iter and one step per study.study(&rep) call, so that    *)
(* the order of the calls and the early return of `?` are observable.      *)
(* f64 samples are modelled by small naturals.                             *)
(***************************************************************************)
EXTENDS Integers, Sequences, FiniteSets, TLC

\* Largest report index; start and end of a run range over 0..MaxIdx.
MaxIdx == 3

----------------------------------------------------------------------------
(* Reports (rd_agent_intf::Report, only rep.iolat.map is read).            *)

\* Keys of Report.iolat.map.
IoTypes == {"read", "write"}

\* IoLatReport::PCTS, the percentile labels of each IoLatReport row.
LAT_PCTS == <<"50", "100">>

PctKeys == {LAT_PCTS[i] : i \in DOMAIN LAT_PCTS}

\* Values an iolat entry takes.
IoLatVals == {0, 1, 2}

\* Every report the selector can be applied to.
AllReports == [IoTypes -> [PctKeys -> IoLatVals]]

\* An io type that saw no IO in the report period: every percentile is 0.
IdleLat == [p \in PctKeys |-> 0]

\* An io type that saw IO: positive percentiles, "50" below "100".
BusyLat == [p \in PctKeys |-> IF p = "100" THEN 2 ELSE 1]

\* Reports the report source hands to the driver.
Reports == [IoTypes -> {IdleLat, BusyLat}]

----------------------------------------------------------------------------
(* Option<f64> and the outcome of evaluating the selector.                 *)

None == [tag |-> "None", v |-> 0]

Some(x) == [tag |-> "Some", v |-> x]

\* BTreeMap's Index panics on a key that is not in the map.
Panic == [tag |-> "Panic", v |-> 0]

\* Mutation: the entry at pct, not the one at "100", decides.
sel_factory_iolat_gate_on_pct(io_type, pct, r) ==
    IF io_type \notin DOMAIN r THEN Panic
    ELSE IF pct \notin DOMAIN r[io_type] THEN Panic
    ELSE IF r[io_type][pct] > 0 THEN Some(r[io_type][pct])
    ELSE None

\* Mutation: an entry of 0 at pct is skipped as well.
sel_factory_iolat_skip_zero(io_type, pct, r) ==
    IF io_type \notin DOMAIN r THEN Panic
    ELSE IF "100" \notin DOMAIN r[io_type] THEN Panic
    ELSE IF r[io_type]["100"] > 0
         THEN IF pct \notin DOMAIN r[io_type] THEN Panic
              ELSE IF r[io_type][pct] > 0 THEN Some(r[io_type][pct])
              ELSE None
         ELSE None

\* sel_factory_iolat(io_type, pct) applied to rep.
sel_factory_iolat(io_type, pct, r) ==
    IF io_type \notin DOMAIN r THEN Panic
    ELSE IF "100" \notin DOMAIN r[io_type] THEN Panic
    ELSE IF r[io_type]["100"] > 0
         THEN IF pct \in DOMAIN r[io_type] THEN Some(r[io_type][pct]) ELSE Panic
         ELSE None

----------------------------------------------------------------------------
(* The studies a caller owns and may register.                             *)

\* 1: StudyMean, 2: StudyPcts, 3: another implementer of trait Study,
\* 4..: the row studies of one StudyIoLatPcts, one per label of LAT_PCTS.
SingleIds == {1, 2, 3}

RowBase == Cardinality(SingleIds)

StudyIds == 1..(RowBase + Len(LAT_PCTS))

\* io_type of the StudyIoLatPcts.
RowIoType == "read"

Kind(s) ==
    IF s = 1 THEN "Mean"
    ELSE IF s = 2 THEN "Pcts"
    ELSE IF s = 3 THEN "Dyn"
    ELSE "MeanPcts"

SelIo(s) == IF s = 2 THEN "write" ELSE RowIoType

SelPct(s) == IF s = 1 THEN "50" ELSE IF s = 2 THEN "100" ELSE LAT_PCTS[s - RowBase]

\* (self.sel)(rep)
Sel(s, r) == sel_factory_iolat(SelIo(s), SelPct(s), r)

\* StudyIoLatPcts::studies(): the row studies in LAT_PCTS order.
RowStudies == [i \in 1..Len(LAT_PCTS) |-> RowBase + i]

Accumulators == {s \in StudyIds : Kind(s) # "Dyn"}

HasMean(s) == Kind(s) \in {"Mean", "MeanPcts"}

HasPcts(s) == Kind(s) \in {"Pcts", "MeanPcts"}

----------------------------------------------------------------------------
(* Study::study for each implementer.  Each returns the Result and the     *)
(* state of the accumulator after the call.                                *)

\* self.data.push(v.as_())
VecPush(d, x) == Append(d, x)

\* self.ckms.insert(v.as_()): CKMS keeps its samples ordered by value; below
\* 1 / (2 * error) insertions nothing is compressed away.
CkmsInsert(c, x) ==
    LET k == Cardinality({i \in 1..Len(c) : c[i] <= x})
    IN  SubSeq(c, 1, k) \o <<x>> \o SubSeq(c, k + 1, Len(c))

\* Mutation: a selector that yields no value is reported as a failure.
StudyMean_study_strict(d, r, s) ==
    LET o == Sel(s, r)
    IN  IF o.tag = "Panic" THEN [res |-> "Panic", data |-> d]
        ELSE IF o.tag = "Some" THEN [res |-> "Ok", data |-> VecPush(d, o.v)]
        ELSE [res |-> "Err", data |-> d]

StudyMean_study(d, r, s) ==
    LET o == Sel(s, r)
    IN  IF o.tag = "Panic" THEN [res |-> "Panic", data |-> d]
        ELSE IF o.tag = "Some" THEN [res |-> "Ok", data |-> VecPush(d, o.v)]
        ELSE [res |-> "Ok", data |-> d]

StudyPcts_study(c, r, s) ==
    LET o == Sel(s, r)
    IN  IF o.tag = "Panic" THEN [res |-> "Panic", ckms |-> c]
        ELSE IF o.tag = "Some" THEN [res |-> "Ok", ckms |-> CkmsInsert(c, o.v)]
        ELSE [res |-> "Ok", ckms |-> c]

\* Result::and: the second result when the first is Ok, else the first.
ResultAnd(a, b) == IF a = "Ok" THEN b ELSE a

\* Mutation: only the mean accumulator is updated.
StudyMeanPcts_study_mean_only(d, c, r, s) ==
    LET m == StudyMean_study(d, r, s)
    IN  [res |-> m.res, data |-> m.data, ckms |-> c]

StudyMeanPcts_study(d, c, r, s) ==
    LET m == StudyMean_study(d, r, s)
        p == StudyPcts_study(c, r, s)
    IN  [res |-> ResultAnd(m.res, p.res), data |-> m.data, ckms |-> p.ckms]

\* The outcomes of studies[pos].study(&rep): a set, since an implementer of
\* the trait that is not defined in this file may return Ok or Err.
StudyOutcomes(s, d, c, r) ==
    IF Kind(s) = "Mean"
    THEN {[res |-> StudyMean_study(d, r, s).res,
           data |-> StudyMean_study(d, r, s).data, ckms |-> c]}
    ELSE IF Kind(s) = "Pcts"
    THEN {[res |-> StudyPcts_study(c, r, s).res,
           data |-> d, ckms |-> StudyPcts_study(c, r, s).ckms]}
    ELSE IF Kind(s) = "MeanPcts"
    THEN {StudyMeanPcts_study(d, c, r, s)}
    ELSE {[res |-> x, data |-> d, ckms |-> c] : x \in {"Ok", "Err"}}

----------------------------------------------------------------------------
(* State.                                                                  *)

VARIABLES
    studies,    \* Studies.studies: the registered studies, in order
    pc,         \* position of the caller / of run_fallible
    start,      \* run_fallible's start
    end,        \* run_fallible's end
    cur,        \* index the report iterator yields next
    pos,        \* index into studies of the inner loop
    rep,        \* the report of the current iteration, <<>> when none
    nr_missed,  \* run_fallible's nr_missed
    ret,        \* Ok(v) returned by run_fallible, -1 when nothing returned
    data,       \* StudyMean.data of every study that has one
    ckms,       \* StudyPcts.ckms of every study that has one
    log,        \* history: every fetch and every study() call, in order
    sel_io,     \* SpecSel: io_type given to sel_factory_iolat
    sel_pct,    \* SpecSel: pct given to sel_factory_iolat
    sel_rep,    \* SpecSel: the report the selector is applied to
    sel_out,    \* SpecSel: what the application produced
    runs,       \* number of run_fallible calls made on this Studies
    base_data,  \* history: data when the current run_fallible call began
    base_ckms,  \* history: ckms when the current run_fallible call began
    lat_data,   \* SpecLat: StudyMean.data of each row study
    lat_ckms,   \* SpecLat: StudyPcts.ckms of each row study
    lat_fed,    \* SpecLat: history, the reports fed to the row studies
    lat_x,      \* SpecLat: time_pcts given to StudyIoLatPcts::result
    lat_cum,    \* SpecLat: iolat_cum values of the agent's report
    lat_mean,   \* SpecLat: what study_mean.result() returned for each row
    lat_table,  \* SpecLat: what StudyIoLatPcts::result produced
    lat_y,      \* SpecLat: time_pcts given to format_table
    lat_out     \* SpecLat: what format_table produced

vars == <<studies, pc, start, end, cur, pos, rep, nr_missed, ret, data, ckms,
          log, sel_io, sel_pct, sel_rep, sel_out, runs, base_data, base_ckms,
          lat_data, lat_ckms, lat_fed, lat_x, lat_cum, lat_mean, lat_table,
          lat_y, lat_out>>

drvVars == <<studies, pc, start, end, cur, pos, rep, nr_missed, ret, data,
             ckms, log>>

selVars == <<sel_io, sel_pct, sel_rep, sel_out>>

runVars == <<runs, base_data, base_ckms>>

latVars == <<lat_data, lat_ckms, lat_fed, lat_x, lat_cum, lat_mean, lat_table,
             lat_y, lat_out>>

Unset == [tag |-> "Unset", v |-> 0]

Registered == {studies[i] : i \in DOMAIN studies}

FetchEv(i, ok, r) == [ev |-> "fetch", idx |-> i, s |-> 0, ok |-> ok, rep |-> r]

StudyEv(i, s, ok, r) == [ev |-> "study", idx |-> i, s |-> s, ok |-> ok, rep |-> r]

\* Studies::new, fresh StudyMean::new / StudyPcts::new, nothing running.
DrvInit ==
    /\ studies = <<>>
    /\ pc = "reg"
    /\ start = 0
    /\ end = 0
    /\ cur = 0
    /\ pos = 0
    /\ rep = <<>>
    /\ nr_missed = 0
    /\ ret = -1
    /\ data = [s \in StudyIds |-> <<>>]
    /\ ckms = [s \in StudyIds |-> <<>>]
    /\ log = <<>>

SelIdle ==
    /\ sel_io = "read"
    /\ sel_pct = "100"
    /\ sel_rep = [io \in IoTypes |-> IdleLat]
    /\ sel_out = Unset

\* No run_fallible call was made yet.
RunIdle ==
    /\ runs = 0
    /\ base_data = [s \in StudyIds |-> <<>>]
    /\ base_ckms = [s \in StudyIds |-> <<>>]

\* A cell of a result that was not computed.
NoCell == [k |-> "none", n |-> 0, d |-> 1]

\* StudyIoLatPcts::new: one fresh StudyMeanPcts per label of LAT_PCTS;
\* result and format_table were not called.
LatIdle ==
    /\ lat_data = [i \in DOMAIN LAT_PCTS |-> <<>>]
    /\ lat_ckms = [i \in DOMAIN LAT_PCTS |-> <<>>]
    /\ lat_fed = <<>>
    /\ lat_x = <<>>
    /\ lat_cum = [p \in PctKeys |-> 0]
    /\ lat_mean = <<>>
    /\ lat_table = [kind |-> "unset", rows |-> <<>>]
    /\ lat_y = <<>>
    /\ lat_out = [kind |-> "unset", header |-> <<>>, rows |-> <<>>, cells |-> <<>>]

Init == DrvInit /\ SelIdle /\ RunIdle /\ LatIdle

----------------------------------------------------------------------------
(* Studies::add and Studies::add_multiple.                                 *)

add(s) ==
    /\ pc = "reg"
    /\ s \in SingleIds
    /\ s \notin Registered
    /\ studies' = Append(studies, s)
    /\ UNCHANGED <<pc, start, end, cur, pos, rep, nr_missed, ret, data, ckms,
                   log, selVars, runVars, latVars>>

add_multiple ==
    /\ pc = "reg"
    /\ \A i \in DOMAIN RowStudies : RowStudies[i] \notin Registered
    /\ studies' = studies \o RowStudies
    /\ UNCHANGED <<pc, start, end, cur, pos, rep, nr_missed, ret, data, ckms,
                   log, selVars, runVars, latVars>>

----------------------------------------------------------------------------
(* Studies::run_fallible.                                                  *)

\* Mutation: the count of the previous call is carried over.
MissedAtStart_carried(prev) == prev

\* let mut nr_missed = 0: the count does not depend on any earlier call.
MissedAtStart(prev) == 0

\* let mut nr_missed = 0; run.report_iter(start, end)
RunStart ==
    /\ pc = "reg"
    /\ \E st \in 0..MaxIdx, en \in 0..MaxIdx :
          /\ start' = st
          /\ end' = en
          /\ cur' = st
    /\ nr_missed' = MissedAtStart(nr_missed)
    /\ pc' = "iter"
    /\ runs' = runs + 1
    /\ base_data' = data
    /\ base_ckms' = ckms
    /\ UNCHANGED <<studies, pos, rep, ret, data, ckms, log, selVars, latVars>>

\* The iterator yields indices start, start + 1, ... and stops before end.
IterHasNext(c, en) == c < en

\* Mutation: a failed fetch is not counted.
MissedInc_forgotten(n) == n

\* Err(_) => nr_missed += 1
MissedInc(n) == n + 1

\* Mutation: the Err arm falls through into the inner loop.
AfterFetch_fallthrough(ok, n) == IF n > 0 THEN "study" ELSE "iter"

\* match rep: the Ok arm runs the inner loop over the n registered studies,
\* the Err arm runs no study and the outer loop takes its next item.
AfterFetch(ok, n) == IF ok /\ n > 0 THEN "study" ELSE "iter"

\* Ok(rep) => the inner loop starts
FetchOk ==
    /\ pc = "iter"
    /\ IterHasNext(cur, end)
    /\ \E r \in Reports :
          /\ rep' = <<r>>
          /\ log' = Append(log, FetchEv(cur, TRUE, <<r>>))
    /\ pc' = AfterFetch(TRUE, Len(studies))
    /\ pos' = IF pc' = "study" THEN 1 ELSE pos
    /\ cur' = IF pc' = "iter" THEN cur + 1 ELSE cur
    /\ UNCHANGED <<studies, start, end, nr_missed, ret, data, ckms, selVars, runVars, latVars>>

\* Err(_) => nr_missed += 1
FetchErr ==
    /\ pc = "iter"
    /\ IterHasNext(cur, end)
    /\ nr_missed' = MissedInc(nr_missed)
    /\ log' = Append(log, FetchEv(cur, FALSE, <<>>))
    /\ rep' = <<>>
    /\ pc' = AfterFetch(FALSE, Len(studies))
    /\ pos' = IF pc' = "study" THEN 1 ELSE pos
    /\ cur' = IF pc' = "iter" THEN cur + 1 ELSE cur
    /\ UNCHANGED <<studies, start, end, ret, data, ckms, selVars, runVars, latVars>>

\* Mutation: the registry is walked from its end.
StudyAt_reversed(k) == studies[Len(studies) + 1 - k]

\* The study the inner loop visits at its k-th step.
StudyAt(k) == studies[k]

\* Mutation: the result of study() is dropped instead of propagated by `?`.
AfterStudy_ignored(res, k, n) ==
    IF res = "Panic" THEN "panic"
    ELSE IF k < n THEN "study"
    ELSE "iter"

\* Mutation: the inner loop stops after the first study.
AfterStudy_first_only(res, k, n) ==
    IF res = "Panic" THEN "panic"
    ELSE IF res = "Err" THEN "err_study"
    ELSE "iter"

\* study.study(&rep)?: where control goes after the k-th of n studies.
AfterStudy(res, k, n) ==
    IF res = "Panic" THEN "panic"
    ELSE IF res = "Err" THEN "err_study"
    ELSE IF k < n THEN "study"
    ELSE "iter"

\* One pass of the inner loop: study.study(&rep)?
StudyStep ==
    /\ pc = "study"
    /\ LET s == StudyAt(pos)
       IN  \E o \in StudyOutcomes(s, data[s], ckms[s], rep[1]) :
              /\ data' = [data EXCEPT ![s] = o.data]
              /\ ckms' = [ckms EXCEPT ![s] = o.ckms]
              /\ log' = Append(log, StudyEv(cur, s, o.res = "Ok", rep))
              /\ pc' = AfterStudy(o.res, pos, Len(studies))
              /\ pos' = IF pc' = "study" THEN pos + 1 ELSE pos
              /\ cur' = IF pc' = "iter" THEN cur + 1 ELSE cur
    /\ UNCHANGED <<studies, start, end, rep, nr_missed, ret, selVars, runVars, latVars>>

\* Mutation: strict comparison, an empty range is let through.
CoverageFails_strict(st, missed, en) == st + missed > en

\* Mutation: off by one, a single fetched report counts as no coverage.
CoverageFails_off_by_one(st, missed, en) == st + missed + 1 >= en

\* if start + nr_missed >= end { bail!(..) }, in u64
CoverageFails(st, missed, en) == st + missed >= en

\* The iterator is exhausted: the coverage check and the return.
Finish ==
    /\ pc = "iter"
    /\ ~IterHasNext(cur, end)
    /\ IF CoverageFails(start, nr_missed, end)
       THEN pc' = "err_cov" /\ ret' = ret
       ELSE pc' = "ok" /\ ret' = nr_missed
    /\ UNCHANGED <<studies, start, end, cur, pos, rep, nr_missed, data, ckms,
                   log, selVars, runVars, latVars>>

Next ==
    \/ \E s \in SingleIds : add(s)
    \/ add_multiple
    \/ RunStart
    \/ FetchOk
    \/ FetchErr
    \/ StudyStep
    \/ Finish

Spec == Init /\ [][Next]_vars

----------------------------------------------------------------------------
(* What the history says: which indices were fetched, with what outcome.   *)

IsFetch(k) == log[k].ev = "fetch"

IsStudy(k) == log[k].ev = "study"

\* Positions of the log that record a fetch, in order.
FetchPos == {k \in DOMAIN log : IsFetch(k)}

\* The fetch of index i failed / succeeded.
FetchFailedAt(i) == \E k \in FetchPos : log[k].idx = i /\ ~log[k].ok

FetchedAt(i) == \E k \in FetchPos : log[k].idx = i /\ log[k].ok

\* Number of failed fetches recorded so far.
NumMissed == Cardinality({k \in FetchPos : ~log[k].ok})

\* The requested range [start, end).
Range == {i \in 0..MaxIdx : start <= i /\ i < end}

\* run_fallible has returned, and not because a study failed.
Returned == pc \in {"ok", "err_cov"}

----------------------------------------------------------------------------
(* C1: when no study update fails, run_fallible returns the coverage error *)
(* exactly when start + missed >= end, missed being the number of indices  *)
(* of [start, end) whose fetch failed: that is when the range is empty or  *)
(* every index failed, and one fetched index anywhere makes it succeed.    *)
C1_CoverageErrorIff ==
    Returned =>
        /\ (pc = "err_cov") <=>
               (start + Cardinality({i \in Range : FetchFailedAt(i)}) >= end)
        /\ (pc = "err_cov") <=> (Range = {} \/ \A i \in Range : FetchFailedAt(i))
        /\ (\E i \in Range : FetchedAt(i)) => pc = "ok"

\* The coverage error on a range of at least two indices, all missing.
C1_Witness ==
    /\ pc = "err_cov"
    /\ end >= start + 2
    /\ \A i \in Range : FetchFailedAt(i)
    /\ studies # <<>>

(* C2: the count follows the failed fetches alone (one per failed fetch,   *)
(* none per successful one), and on success the returned value is the      *)
(* number of indices of [start, end) whose fetch failed.                   *)
C2_ReturnsMissedCount ==
    /\ pc # "reg" => nr_missed = NumMissed
    /\ pc = "ok" => ret = Cardinality({i \in Range : FetchFailedAt(i)})

\* Success with exactly one fetched index between two missing ones.
C2_Witness ==
    /\ pc = "ok"
    /\ ret = 2
    /\ end = start + 3
    /\ FetchedAt(start + 1)

\* Positions of the log where a study's update returned an error.
ErrCalls == {k \in DOMAIN log : IsStudy(k) /\ ~log[k].ok}

(* C3: once a study's update has failed the run is over: the failing call  *)
(* is the last thing that happened (no later study saw that report, no     *)
(* later index was fetched), the run is in its aborted state and neither   *)
(* the coverage check nor the return of the missed count took place.       *)
C3_AbortOnFirstFailure ==
    ErrCalls # {} =>
        /\ pc = "err_study"
        /\ ErrCalls = {Len(log)}
        /\ log[Len(log)].idx = cur
        /\ log[Len(log)].s = studies[pos]
        /\ ret = -1

\* A failure with studies still to run on that report and indices to go.
C3_Witness ==
    /\ pc = "err_study"
    /\ pos < Len(studies)
    /\ cur + 1 < end
    /\ \E s \in Registered : data[s] # <<>>

\* This step appended a failed fetch to the history.
MissStep ==
    /\ Len(log') = Len(log) + 1
    /\ log'[Len(log')].ev = "fetch"
    /\ ~log'[Len(log')].ok

\* This step called a study or changed the state of one.
TouchStep ==
    \/ data' # data
    \/ ckms' # ckms
    \/ Len(log') = Len(log) + 1 /\ log'[Len(log')].ev = "study"

(* C4: the step of an index whose fetch fails calls no study and changes   *)
(* only the missed count: the accumulators are as before and the loop is   *)
(* at its next item; a study is only ever called, or changed, while the    *)
(* loop holds a report that was fetched for the current index.             *)
C4_MissTouchesNoStudy ==
    [][ /\ MissStep =>
              /\ data' = data
              /\ ckms' = ckms
              /\ studies' = studies
              /\ nr_missed' = nr_missed + 1
              /\ pc' = "iter"
        /\ TouchStep =>
              /\ rep # <<>>
              /\ \E k \in FetchPos :
                    /\ log[k].ok
                    /\ log[k].idx = cur
                    /\ log[k].rep = rep
                    /\ \A j \in FetchPos : j <= k ]_vars

\* A miss after an accumulator already holds a sample.
C4_Witness ==
    /\ \E k \in FetchPos : ~log[k].ok /\ k > 1
    /\ \E s \in Registered : data[s] # <<>>
    /\ Len(studies) >= 2

\* Position of study s in the registry.
PosOf(s) == CHOOSE p \in DOMAIN studies : studies[p] = s

\* The k-th entry of the history is what the loops must do after entry k-1.
FollowsInOrder(k) ==
    LET e == log[k]
        b == log[k - 1]
    IN  IF e.ev = "fetch"
        THEN /\ e.idx = b.idx + 1
             /\ \/ b.ev = "fetch" /\ (~b.ok \/ studies = <<>>)
                \/ b.ev = "study" /\ b.ok /\ b.s = studies[Len(studies)]
        ELSE /\ e.idx = b.idx
             /\ e.s \in Registered
             /\ e.rep = b.rep
             /\ \/ b.ev = "fetch" /\ b.ok /\ PosOf(e.s) = 1
                \/ /\ b.ev = "study" /\ b.ok /\ b.s \in Registered
                   /\ PosOf(e.s) = PosOf(b.s) + 1

(* C5: the indices of [start, end) are visited in ascending order, once    *)
(* each and never end itself; every fetched report is given to every       *)
(* registered study in registration order, and all studies are done with   *)
(* index i before index i + 1 is fetched.                                  *)
C5_VisitOrder ==
    /\ log # <<>> => log[1].ev = "fetch" /\ log[1].idx = start
    /\ \A k \in DOMAIN log : log[k].idx \in Range
    /\ \A k \in DOMAIN log : k > 1 => FollowsInOrder(k)
    /\ Returned =>
          /\ \A i \in Range : Cardinality({k \in FetchPos : log[k].idx = i}) = 1
          /\ \A i \in Range : \A p \in DOMAIN studies :
                FetchedAt(i) =>
                    Cardinality({k \in DOMAIN log :
                        IsStudy(k) /\ log[k].idx = i /\ log[k].s = studies[p]}) = 1

\* A completed run over two fetched reports with three or more studies,
\* registered in an order that is not the order of their ids.
C5_Witness ==
    /\ pc = "ok"
    /\ Len(studies) >= 3
    /\ studies[1] > studies[2]
    /\ Cardinality({k \in FetchPos : log[k].ok}) >= 2

----------------------------------------------------------------------------
(* What the accumulators must hold, read off the history.                  *)

\* What the selector of the study called at position k made of its report.
SelAt(k) == Sel(log[k].s, log[k].rep[1])

\* The values study s was given by its selector, in the order of the calls.
RECURSIVE Picked(_, _)
Picked(s, n) ==
    IF n = 0 THEN <<>>
    ELSE IF IsStudy(n) /\ log[n].s = s /\ SelAt(n).tag = "Some"
         THEN Append(Picked(s, n - 1), SelAt(n).v)
         ELSE Picked(s, n - 1)

\* Number of entries of q equal to x.
Count(q, x) == Cardinality({i \in DOMAIN q : q[i] = x})

\* q holds the elements of r, in non-decreasing order.
SortedFrom(q, r) ==
    /\ Len(q) = Len(r)
    /\ \A x \in IoLatVals : Count(q, x) = Count(r, x)
    /\ \A i \in DOMAIN q : i > 1 => q[i - 1] <= q[i]

\* Study s holds exactly the samples r.
Holds(s, r) ==
    /\ HasMean(s) => data[s] = r
    /\ HasPcts(s) => SortedFrom(ckms[s], r)
    /\ ~HasMean(s) => data[s] = <<>>
    /\ ~HasPcts(s) => ckms[s] = <<>>

(* C6: a report for which a study's selector has no value adds nothing to  *)
(* that study and is no error: the call returns Ok (so the run goes on),   *)
(* the missed count does not move, each accumulator holds exactly the      *)
(* values its own selector produced, whatever the selectors of the other   *)
(* studies made of the same reports.                                       *)
C6_NoValueIsNoError ==
    /\ \A k \in DOMAIN log :
          (IsStudy(k) /\ Kind(log[k].s) # "Dyn" /\ SelAt(k).tag = "None")
              => log[k].ok
    /\ \A s \in Accumulators : Holds(s, Picked(s, Len(log)))
    /\ pc # "reg" => nr_missed = Cardinality({k \in FetchPos : ~log[k].ok})
    /\ pc = "err_study" => Kind(studies[pos]) = "Dyn"

\* One report, fully processed, from which one registered study got no
\* value while another one recorded a sample.
C6_Witness ==
    /\ pc = "ok"
    /\ nr_missed = 0
    /\ \E j, k \in DOMAIN log :
          /\ IsStudy(j) /\ IsStudy(k)
          /\ log[j].idx = log[k].idx
          /\ Kind(log[j].s) # "Dyn" /\ SelAt(j).tag = "None"
          /\ Kind(log[k].s) # "Dyn" /\ SelAt(k).tag = "Some"
          /\ j < k
          /\ data[log[j].s] = <<>> /\ ckms[log[j].s] = <<>>
          /\ Len(ckms[log[k].s]) + Len(data[log[k].s]) > 0

(* C7: whenever run_fallible returns Ok, every registered accumulator      *)
(* holds at least one sample.                                              *)
C7_NoEmptyAccumulatorOnOk ==
    pc = "ok" =>
        \A s \in Registered \cap Accumulators :
            /\ HasMean(s) => Len(data[s]) >= 1
            /\ HasPcts(s) => Len(ckms[s]) >= 1

\* The reports that were fetched, in index order.
RECURSIVE FetchedReports(_)
FetchedReports(n) ==
    IF n = 0 THEN <<>>
    ELSE IF IsFetch(n) /\ log[n].ok
         THEN Append(FetchedReports(n - 1), log[n].rep[1])
         ELSE FetchedReports(n - 1)

\* The values the selector of s produces on a sequence of reports.
RECURSIVE SelectAll(_, _)
SelectAll(s, rs) ==
    IF rs = <<>> THEN <<>>
    ELSE LET o == Sel(s, rs[Len(rs)])
             h == SelectAll(s, SubSeq(rs, 1, Len(rs) - 1))
         IN  IF o.tag = "Some" THEN Append(h, o.v) ELSE h

(* C8: on a run in which no update fails, what every registered study      *)
(* holds at the end and the returned missed count are determined by the    *)
(* report source and the range alone, so they are the same for every       *)
(* registration order of the same studies.                                 *)
C8_OrderIndependent ==
    pc = "ok" =>
        /\ \A s \in Registered \cap Accumulators :
              Holds(s, SelectAll(s, FetchedReports(Len(log))))
        /\ ret = Cardinality(Range) - Len(FetchedReports(Len(log)))

\* A successful run with the row studies registered before the single
\* studies, of which the last registered one holds two samples.
C8_Witness ==
    /\ pc = "ok"
    /\ Len(studies) = Cardinality(StudyIds)
    /\ studies[1] = RowStudies[1]
    /\ Kind(studies[Len(studies)]) = "Mean"
    /\ Len(data[studies[Len(studies)]]) = 2

(* C9 as stated: after run_fallible returns an error (a study update       *)
(* failure or the coverage failure) no registered study holds a sample of  *)
(* that pass.                                                              *)
C9_NoPartialResults ==
    pc \in {"err_study", "err_cov"} =>
        \A s \in Registered : data[s] = <<>> /\ ckms[s] = <<>>

(* C9 amended: after the coverage failure no registered study holds a      *)
(* sample of that pass; after a study update failure nothing is returned,  *)
(* and the studies keep exactly the samples they recorded before the       *)
(* failing call.                                                           *)
C9_NoResultsOnCoverageFailure ==
    /\ pc = "err_cov" =>
          /\ \A s \in Registered : data[s] = <<>> /\ ckms[s] = <<>>
          /\ ret = -1
    /\ pc = "err_study" =>
          /\ ret = -1
          /\ \A s \in Accumulators : Holds(s, Picked(s, Len(log) - 1))

\* The coverage failure on a range of two or more indices with
\* accumulators registered.
C9_Witness ==
    /\ pc = "err_cov"
    /\ end >= start + 2
    /\ Cardinality(Registered \cap Accumulators) >= 2

----------------------------------------------------------------------------
(* The selector on its own: sel_factory_iolat(sel_io, sel_pct) applied to  *)
(* sel_rep, for arguments that need not be keys of the report.             *)

\* io_type arguments: the keys of the map and one that is not a key.
SelIoArgs == IoTypes \cup {"none"}

\* pct arguments: the labels of the map and one that is not a label.
SelPctArgs == PctKeys \cup {"42"}

SelInit ==
    /\ DrvInit
    /\ RunIdle
    /\ LatIdle
    /\ sel_io \in SelIoArgs
    /\ sel_pct \in SelPctArgs
    /\ sel_rep \in AllReports
    /\ sel_out = Unset

\* let sel = sel_factory_iolat(io_type, pct); sel(&rep)
SelApply ==
    /\ sel_out = Unset
    /\ sel_out' = sel_factory_iolat(sel_io, sel_pct, sel_rep)
    /\ UNCHANGED <<sel_io, sel_pct, sel_rep, drvVars, runVars, latVars>>

SelNext == SelApply

SpecSel == SelInit /\ [][SelNext]_vars

----------------------------------------------------------------------------
(* Results of the accumulators.  A value that is a quotient is kept as     *)
(* numerator and denominator, a standard deviation as the quotient under   *)
(* its square root, so that nothing is rounded.                            *)

\* The f64 n / d.
Val(n, d) == [k |-> "val", n |-> n, d |-> d]

\* The f64 sqrt(n / d).
Sqrt(n, d) == [k |-> "sqrt", n |-> n, d |-> d]

RECURSIVE SumSeq(_)
SumSeq(q) == IF q = <<>> THEN 0 ELSE q[Len(q)] + SumSeq(SubSeq(q, 1, Len(q) - 1))

\* statistical::mean: the sum folded over the slice, divided by its length.
statistical_mean(q) == Val(SumSeq(q), Len(q))

\* Sum of the squared deviations from the mean, times Len(q)^2.
SumSqDev(q) ==
    SumSeq([i \in DOMAIN q |-> (Len(q) * q[i] - SumSeq(q)) * (Len(q) * q[i] - SumSeq(q))])

\* statistical::standard_deviation(v, None): the square root of the sample
\* variance, sum of squared deviations / (len - 1); needs len > 1.
statistical_standard_deviation(q) ==
    Sqrt(SumSqDev(q), Len(q) * Len(q) * (Len(q) - 1))

\* Mutation: the zero arm also takes two samples.
StdevOf_two_is_zero(q) ==
    IF Len(q) <= 2 THEN Val(0, 1) ELSE statistical_standard_deviation(q)

\* match self.data.len() { 1 => 0.0, _ => standard_deviation(..) }
StdevOf(q) ==
    IF Len(q) = 1 THEN Val(0, 1) ELSE statistical_standard_deviation(q)

\* The running extreme before any sample: std::f64::MAX / std::f64::MIN.
Extreme == [top |-> TRUE, v |-> 0]

\* Mutation: the comparison is turned around.
MinStep_turned(acc, x) ==
    IF acc.top \/ x > acc.v THEN [top |-> FALSE, v |-> x] ELSE acc

\* min = min.min(*v)
MinStep(acc, x) ==
    IF acc.top \/ x < acc.v THEN [top |-> FALSE, v |-> x] ELSE acc

\* max = max.max(*v)
MaxStep(acc, x) ==
    IF acc.top \/ x > acc.v THEN [top |-> FALSE, v |-> x] ELSE acc

RECURSIVE FoldMin(_)
FoldMin(q) ==
    IF q = <<>> THEN Extreme
    ELSE MinStep(FoldMin(SubSeq(q, 1, Len(q) - 1)), q[Len(q)])

RECURSIVE FoldMax(_)
FoldMax(q) ==
    IF q = <<>> THEN Extreme
    ELSE MaxStep(FoldMax(SubSeq(q, 1, Len(q) - 1)), q[Len(q)])

\* StudyMean::result.  On empty data standard_deviation's length assertion
\* fails before min and max are computed.
StudyMean_result(q) ==
    IF Len(q) = 0
    THEN [kind |-> "panic", mean |-> NoCell, stdev |-> NoCell,
          min |-> Extreme, max |-> Extreme]
    ELSE [kind |-> "ok", mean |-> statistical_mean(q), stdev |-> StdevOf(q),
          min |-> FoldMin(q), max |-> FoldMax(q)]

\* StudyIoLatPcts::TIME_PCTS
TIME_PCTS ==
    <<"00", "01", "05", "10", "16", "25", "50", "75", "84", "90", "95", "99",
      "99.9", "100">>

\* StudyIoLatPcts::TIME_FORMAT_PCTS
TIME_FORMAT_PCTS == <<"00", "16", "50", "84", "90", "95", "99", "99.9", "100">>

\* pct.parse::<f64>() in tenths of a percent; -1 when the label is not a
\* number and parse() returns Err.
ParsePct(l) ==
    CASE l \in {"00", "0"} -> 0
      [] l = "01" -> 10
      [] l = "05" -> 50
      [] l = "10" -> 100
      [] l = "16" -> 160
      [] l = "25" -> 250
      [] l = "50" -> 500
      [] l = "75" -> 750
      [] l = "84" -> 840
      [] l = "90" -> 900
      [] l = "95" -> 950
      [] l = "99" -> 990
      [] l = "99.9" -> 999
      [] l \in {"100", "100.0"} -> 1000
      [] OTHER -> -1

\* Mutation: the scan runs from the largest sample down.
CkmsQuery_from_top(c, t) ==
    IF c = <<>> THEN None
    ELSE LET hits == {i \in 1..(Len(c) - 1) : 2000 * (i + 1) > 2 * t * Len(c) + 1000}
         IN  IF hits = {} THEN Some(c[1])
             ELSE Some(c[Len(c) + 1 - CHOOSE i \in hits : \A j \in hits : i <= j])

\* self.ckms.query(t / 1000): the first sample whose rank bound exceeds
\* q * n + 1/2 (every sample has g = 1 and delta = 0 while nothing has been
\* compressed), the largest sample when there is none; None when empty.
CkmsQuery(c, t) ==
    IF c = <<>> THEN None
    ELSE LET hits == {i \in 1..(Len(c) - 1) : 2000 * (i + 1) > 2 * t * Len(c) + 1000}
         IN  IF hits = {} THEN Some(c[Len(c)])
             ELSE Some(c[CHOOSE i \in hits : \A j \in hits : i <= j])

SeqSet(q) == {q[i] : i \in DOMAIN q}

\* StudyPcts::result: both unwraps panic, on a label that is no number and
\* on a query of an empty CKMS.
StudyPcts_result(c, pcts) ==
    IF \E l \in SeqSet(pcts) : ParsePct(l) < 0 \/ CkmsQuery(c, ParsePct(l)).tag = "None"
    THEN [kind |-> "panic", map |-> <<>>]
    ELSE [kind |-> "ok",
          map |-> [l \in SeqSet(pcts) |-> Val(CkmsQuery(c, ParsePct(l)).v, 1)]]

\* StudyMeanPcts::result
StudyMeanPcts_result(q, c, pcts) ==
    LET m == StudyMean_result(q)
        p == StudyPcts_result(c, pcts)
    IN  IF m.kind = "panic" \/ p.kind = "panic"
        THEN [kind |-> "panic", mean |-> NoCell, stdev |-> NoCell, map |-> <<>>]
        ELSE [kind |-> "ok", mean |-> m.mean, stdev |-> m.stdev, map |-> p.map]

\* An Option<&[&str]>: <<>> is None, <<q>> is Some(q).
UnwrapOr(opt, dfl) == IF opt = <<>> THEN dfl ELSE opt[1]

\* Mutation: the cumulative value is not stored.
InsertCum_dropped(row, x) == row

\* result.get_mut(lat_pct).unwrap().insert("cum", ..)
InsertCum(row, x) == ("cum" :> Val(x, 1)) @@ row

\* pcts.insert("mean", mean); pcts.insert("stdev", stdev)
InsertMeanStdev(map, mean, stdev) == ("stdev" :> stdev) @@ ("mean" :> mean) @@ map

\* StudyIoLatPcts::result
StudyIoLatPcts_result(dd, cc, x, cum) ==
    LET pcts == UnwrapOr(x, TIME_PCTS)
        r(i) == StudyMeanPcts_result(dd[i], cc[i], pcts)
    IN  IF \E i \in DOMAIN LAT_PCTS : r(i).kind = "panic"
        THEN [kind |-> "panic", rows |-> <<>>]
        ELSE [kind |-> "table",
              rows |-> [l \in PctKeys |->
                  LET i == CHOOSE j \in DOMAIN LAT_PCTS : LAT_PCTS[j] = l
                  IN  InsertCum(InsertMeanStdev(r(i).map, r(i).mean, r(i).stdev),
                                cum[l])]]

\* Mutation: only 0 is special, 100 is rendered as a percentile.
fmt_pct_no_max(l) ==
    IF l \in {"cum", "mean", "stdev"} THEN l
    ELSE IF ParsePct(l) < 0 THEN "!"
    ELSE IF ParsePct(l) = 0 THEN "min"
    ELSE "p" \o l

\* The closure fmt_pct of format_table; "!" when parse().unwrap() panics.
fmt_pct(l) ==
    IF l \in {"cum", "mean", "stdev"} THEN l
    ELSE IF ParsePct(l) < 0 THEN "!"
    ELSE IF ParsePct(l) = 0 THEN "min"
    ELSE IF ParsePct(l) = 1000 THEN "max"
    ELSE "p" \o l

\* The columns format_table writes, in order.
FormatCols(y) == UnwrapOr(y, TIME_FORMAT_PCTS) \o <<"cum", "mean", "stdev">>

\* StudyIoLatPcts::format_table: the header line, the row headers and the
\* cells handed to format_duration; it panics on a label it cannot parse
\* and on a cell that is not in the table.
format_table(rows, y) ==
    LET cols == FormatCols(y)
    IN  IF \/ \E l \in SeqSet(cols) \cup PctKeys : fmt_pct(l) = "!"
           \/ \E l \in PctKeys : \E c \in SeqSet(cols) : c \notin DOMAIN rows[l]
        THEN [kind |-> "panic", header |-> <<>>, rows |-> <<>>, cells |-> <<>>]
        ELSE [kind |-> "ok",
              header |-> [j \in DOMAIN cols |-> fmt_pct(cols[j])],
              rows |-> [i \in DOMAIN LAT_PCTS |-> fmt_pct(LAT_PCTS[i])],
              cells |-> [i \in DOMAIN LAT_PCTS |->
                            [j \in DOMAIN cols |-> rows[LAT_PCTS[i]][cols[j]]]]]

----------------------------------------------------------------------------
(* One StudyIoLatPcts on its own: reports are fed to all its row studies,  *)
(* then result() is called, then format_table() on the table.              *)

\* Most reports fed to the row studies.
MaxFeed == 3

\* The reports fed: any report, the io types other than RowIoType idle.
LatReports == {r \in AllReports : \A io \in IoTypes \ {RowIoType} : r[io] = IdleLat}

\* time_pcts arguments of result(): None and two explicit label lists.
LatXArgs == {<<>>, <<<<"00", "50", "100">>>>, <<<<"0", "50", "100.0">>>>}

\* time_pcts arguments of format_table().
LatYArgs == {<<>>, <<<<"00", "100">>>>, <<<<"0", "100.0">>>>, <<<<"99.9", "50">>>>}

\* Values of iolat_cum.
CumVals == {1, 2}

LatInit ==
    /\ DrvInit
    /\ SelIdle
    /\ RunIdle
    /\ LatIdle

\* One report goes through every row study, as in one iteration of the
\* driver's loop over a StudyIoLatPcts registered with add_multiple.
LatFeed ==
    /\ lat_table.kind = "unset"
    /\ Len(lat_fed) < MaxFeed
    /\ \E r \in LatReports :
          /\ lat_fed' = Append(lat_fed, r)
          /\ lat_data' = [i \in DOMAIN LAT_PCTS |->
                StudyMeanPcts_study(lat_data[i], lat_ckms[i], r, RowStudies[i]).data]
          /\ lat_ckms' = [i \in DOMAIN LAT_PCTS |->
                StudyMeanPcts_study(lat_data[i], lat_ckms[i], r, RowStudies[i]).ckms]
    /\ UNCHANGED <<lat_x, lat_cum, lat_mean, lat_table, lat_y, lat_out, drvVars,
                   selVars, runVars>>

\* StudyIoLatPcts::result after a pass that fetched at least one report.
LatResult ==
    /\ lat_table.kind = "unset"
    /\ lat_fed # <<>>
    /\ \E x \in LatXArgs, cum \in [PctKeys -> CumVals] :
          /\ lat_x' = x
          /\ lat_cum' = cum
          /\ lat_mean' = [i \in DOMAIN LAT_PCTS |-> StudyMean_result(lat_data[i])]
          /\ lat_table' = StudyIoLatPcts_result(lat_data, lat_ckms, x, cum)
    /\ UNCHANGED <<lat_data, lat_ckms, lat_fed, lat_y, lat_out, drvVars,
                   selVars, runVars>>

\* StudyIoLatPcts::format_table on the table result() returned.
LatFormat ==
    /\ lat_table.kind = "table"
    /\ lat_out.kind = "unset"
    /\ \E y \in LatYArgs :
          /\ lat_y' = y
          /\ lat_out' = format_table(lat_table.rows, y)
    /\ UNCHANGED <<lat_data, lat_ckms, lat_fed, lat_x, lat_cum, lat_mean,
                   lat_table, drvVars, selVars, runVars>>

LatNext ==
    \/ LatFeed
    \/ LatResult
    \/ LatFormat

SpecLat == LatInit /\ [][LatNext]_vars

\* result() was called.
ResultCalled == lat_table.kind # "unset"

ThreePcts == <<"00", "50", "100">>

(* C13: for a StudyPcts that received at least one sample,                 *)
(* result(["00", "50", "100"]) has an entry for each of the three labels,  *)
(* the values are non-decreasing in that order and each of them is one of  *)
(* the inserted samples.                                                   *)
C13_PctsMonotone ==
    (ResultCalled /\ lat_x = <<ThreePcts>>
        /\ \A i \in DOMAIN LAT_PCTS : lat_ckms[i] # <<>>) =>
        /\ lat_table.kind = "table"
        /\ \A i \in DOMAIN LAT_PCTS :
              LET row == lat_table.rows[LAT_PCTS[i]]
              IN  /\ SeqSet(ThreePcts) \subseteq DOMAIN row
                  /\ \A l \in SeqSet(ThreePcts) :
                        row[l].k = "val" /\ row[l].d = 1
                            /\ row[l].n \in SeqSet(lat_ckms[i])
                  /\ row["00"].n <= row["50"].n
                  /\ row["50"].n <= row["100"].n

\* The three percentiles of a row that holds three samples, not all equal,
\* inserted in an order that is not sorted.
C13_Witness ==
    /\ lat_table.kind = "table"
    /\ lat_x = <<ThreePcts>>
    /\ \E i \in DOMAIN LAT_PCTS :
          /\ Len(lat_data[i]) = 3
          /\ lat_data[i][1] > lat_data[i][2]
          /\ lat_table.rows[LAT_PCTS[i]]["00"].n < lat_table.rows[LAT_PCTS[i]]["100"].n

\* The values the selector of row i extracts from the reports fed.
RECURSIVE RowValues(_, _)
RowValues(i, n) ==
    IF n = 0 THEN <<>>
    ELSE IF lat_fed[n][RowIoType]["100"] > 0
         THEN Append(RowValues(i, n - 1), lat_fed[n][RowIoType][LAT_PCTS[i]])
         ELSE RowValues(i, n - 1)

\* The table has one row per label of LAT_PCTS, each with the requested
\* columns and the reserved keys, the mean and the cumulative value.
TableAsClaimed ==
    /\ lat_table.kind = "table"
    /\ DOMAIN lat_table.rows = PctKeys
    /\ \A i \in DOMAIN LAT_PCTS :
          LET row == lat_table.rows[LAT_PCTS[i]]
              vs == RowValues(i, Len(lat_fed))
          IN  /\ DOMAIN row =
                    SeqSet(UnwrapOr(lat_x, TIME_PCTS)) \cup {"mean", "stdev", "cum"}
              /\ row["mean"].k = "val"
              /\ row["mean"].d > 0
              /\ row["mean"].n * Len(vs) = SumSeq(vs) * row["mean"].d
              /\ row["cum"] = Val(lat_cum[LAT_PCTS[i]], 1)

(* C14: after a streaming pass StudyIoLatPcts::result returns a table with *)
(* exactly one row per label of LAT_PCTS; every row has every requested    *)
(* column label plus "mean", "stdev" and "cum"; row["mean"] is the         *)
(* arithmetic mean of the values the row's selector extracted from the fed *)
(* reports and row["cum"] is the supplied cumulative value.                *)
C14_ResultTable == ResultCalled => TableAsClaimed

\* What the claimed rule makes of a label.
HeaderAsClaimed(l) ==
    IF l = "00" THEN "min"
    ELSE IF l = "100" THEN "max"
    ELSE IF l \in {"cum", "mean", "stdev"} THEN l
    ELSE "p" \o l

\* The rule by the number the label stands for.
HeaderByValue(l) ==
    IF l \in {"cum", "mean", "stdev"} THEN l
    ELSE IF ParsePct(l) = 0 THEN "min"
    ELSE IF ParsePct(l) = 1000 THEN "max"
    ELSE "p" \o l

\* The columns are the given labels, in their order, then cum, mean, stdev,
\* and the headers follow rule H.
FormattedBy(H(_)) ==
    LET given == UnwrapOr(lat_y, TIME_FORMAT_PCTS)
        n == Len(given)
    IN  /\ Len(lat_out.header) = n + 3
        /\ \A j \in 1..n : lat_out.header[j] = H(given[j])
        /\ lat_out.header[n + 1] = "cum"
        /\ lat_out.header[n + 2] = "mean"
        /\ lat_out.header[n + 3] = "stdev"
        /\ \A i \in DOMAIN LAT_PCTS :
              /\ lat_out.rows[i] = H(LAT_PCTS[i])
              /\ \A j \in 1..n :
                    lat_out.cells[i][j] = lat_table.rows[LAT_PCTS[i]][given[j]]
              /\ lat_out.cells[i][n + 1] = lat_table.rows[LAT_PCTS[i]]["cum"]
              /\ lat_out.cells[i][n + 2] = lat_table.rows[LAT_PCTS[i]]["mean"]
              /\ lat_out.cells[i][n + 3] = lat_table.rows[LAT_PCTS[i]]["stdev"]

(* C15 as stated: format_table renders label "00" as "min", label "100" as *)
(* "max", the reserved labels unchanged and every other label L as "p"     *)
(* followed by L, for column and row headers alike; the columns are the    *)
(* given labels in their order followed by cum, mean, stdev.               *)
C15_HeadersByLabel == lat_out.kind = "ok" => FormattedBy(HeaderAsClaimed)

(* C15 amended: a numeric label whose value is 0 (such as "00") renders as *)
(* "min", one whose value is 100 (such as "100") as "max", the reserved    *)
(* labels unchanged and every other numeric label L as "p" followed by L;  *)
(* rows and column order as stated.                                        *)
C15_HeadersByValue == lat_out.kind = "ok" => FormattedBy(HeaderByValue)

\* A table formatted with the columns "99.9" and "50".
C15_Witness ==
    /\ lat_out.kind = "ok"
    /\ lat_y = <<<<"99.9", "50">>>>
    /\ lat_out.header = <<"p99.9", "p50", "cum", "mean", "stdev">>
    /\ lat_out.rows[Len(LAT_PCTS)] = "max"

C17_GateOn100 ==
    (sel_out # Unset /\ sel_io \in IoTypes) =>
        /\ sel_pct \in PctKeys =>
              sel_out = IF sel_rep[sel_io]["100"] > 0
                        THEN Some(sel_rep[sel_io][sel_pct])
                        ELSE None
        /\ sel_rep[sel_io]["100"] = 0 => sel_out = None

\* No value although the entry at pct is positive.
C17_Witness ==
    /\ sel_out = None
    /\ sel_io \in IoTypes
    /\ sel_pct \in PctKeys
    /\ sel_rep[sel_io][sel_pct] > 0

\* Number of fed reports in which the io type of the rows saw IO.
NumBusyFed == Cardinality({k \in DOMAIN lat_fed : lat_fed[k][RowIoType]["100"] > 0})

(* C18: all row studies of one StudyIoLatPcts hold the same number of      *)
(* samples: every report fed to the rows is recorded by all of them or by  *)
(* none, so no row is empty while another is not.                          *)
C18_RowsInStep ==
    \A i \in DOMAIN LAT_PCTS :
        /\ Len(lat_data[i]) = NumBusyFed
        /\ Len(lat_ckms[i]) = NumBusyFed

\* Rows that recorded a report whose "50" entry is 0 and skipped another.
C18_Witness ==
    /\ Len(lat_fed) = 2
    /\ NumBusyFed = 1
    /\ \E i \in DOMAIN LAT_PCTS : lat_data[i] = <<0>>

(* C19: format_table finds every cell it looks up in the table of result() *)
(* whenever its column labels are among those given to result(), so with   *)
(* both defaults (TIME_FORMAT_PCTS within TIME_PCTS); "cum", "mean" and    *)
(* "stdev" are in every row.                                               *)
C19_CellsFound ==
    /\ lat_table.kind = "table" =>
          \A l \in PctKeys : {"cum", "mean", "stdev"} \subseteq DOMAIN lat_table.rows[l]
    /\ (lat_out.kind # "unset"
            /\ SeqSet(UnwrapOr(lat_y, TIME_FORMAT_PCTS))
                   \subseteq SeqSet(UnwrapOr(lat_x, TIME_PCTS))) =>
          lat_out.kind = "ok"

\* Both defaults: the table of TIME_PCTS formatted with TIME_FORMAT_PCTS.
C19_Witness ==
    /\ lat_out.kind = "ok"
    /\ lat_x = <<>>
    /\ lat_y = <<>>
    /\ Len(lat_out.header) = Len(TIME_FORMAT_PCTS) + 3

----------------------------------------------------------------------------
(* run_fallible called again on the same Studies, whose studies keep what  *)
(* they accumulated.  A later call studies a later window of reports.      *)

\* Most run_fallible calls on one Studies.
MaxRuns == 2

\* run_fallible once more, after an earlier call has returned.  The log
\* starts over: it is the history of the current call.
RunAgain ==
    /\ pc \in {"ok", "err_cov", "err_study"}
    /\ runs < MaxRuns
    /\ \E st \in 0..MaxIdx, en \in 0..MaxIdx :
          /\ st >= start /\ st >= end
          /\ start' = st
          /\ end' = en
          /\ cur' = st
    /\ nr_missed' = MissedAtStart(nr_missed)
    /\ pc' = "iter"
    /\ ret' = -1
    /\ log' = <<>>
    /\ runs' = runs + 1
    /\ base_data' = data
    /\ base_ckms' = ckms
    /\ UNCHANGED <<studies, pos, rep, data, ckms, selVars, latVars>>

NextTwo ==
    \/ Next
    \/ RunAgain

SpecTwo == Init /\ [][NextTwo]_vars

(* C20: nothing is reset between runs: after a second run_fallible call on *)
(* the same studies every study holds the samples it held when the call    *)
(* began, followed by those of this call, while the missed count starts    *)
(* from 0 again, so that the returned value and the coverage check are     *)
(* those of the second call's range alone.                                 *)
C20_NoResetBetweenRuns ==
    runs >= 2 =>
        /\ \A s \in Accumulators :
              /\ HasMean(s) => data[s] = base_data[s] \o Picked(s, Len(log))
              /\ HasPcts(s) =>
                    SortedFrom(ckms[s], base_ckms[s] \o Picked(s, Len(log)))
        /\ nr_missed = NumMissed
        /\ pc = "ok" => ret = Cardinality({i \in Range : FetchFailedAt(i)})
        /\ Returned =>
              ((pc = "err_cov") <=> (Range = {} \/ \A i \in Range : FetchFailedAt(i)))

\* A second call that succeeded with one miss of its own and added a
\* sample to a study that already held samples of the first call.
C20_Witness ==
    /\ runs = 2
    /\ pc = "ok"
    /\ ret = 1
    /\ \E s \in Registered :
          HasMean(s) /\ base_data[s] # <<>> /\ Len(data[s]) > Len(base_data[s])

(* C10: the selector is total: for every io_type and percentile label      *)
(* given to sel_factory_iolat and for every report, applying it never      *)
(* panics, yields a value or no value, and leaves the report as it was.    *)
C10_SelectorTotal ==
    sel_out # Unset => sel_out.tag \in {"Some", "None"}

====
